---- MODULE Spec2Model ----
(***************************************************************************)
(* Payment lifecycle of poc-auth-backend: GeideaManager (session creation, *)
(* webhook reconciliation, status query) over the payments table.          *)
(*                                                                         *)
(* Every request runs in its own AsyncSession (database.py get_db); the    *)
(* steps of a handler are the stretches of code between two awaits that    *)
(* reach the database or the gateway.  A commit flushes an UPDATE that     *)
(* carries only the columns whose value differs from the value the session *)
(* loaded (the unit of work of the ORM), and is atomic in the database.    *)
(***************************************************************************)
EXTENDS Integers, FiniteSets, Sequences, TLC

\* ------------------------------------------------------------------ bounds
\* number of create-session requests (so also of payments rows)
MaxPayments == 2
\* number of webhook requests that can be in flight at the same time
MaxWebhooks == 2
\* number of calls of _generate_signature with the same arguments
MaxCalls == 2

Sessions == 1..MaxPayments
Hooks == 1..MaxWebhooks

\* ------------------------------------------------------------------ values
NoValue == "null"
Users == {"userA", "userB"}
\* values uuid4 can produce; "ref_x" is never drawn and stands for a
\* reference that no payment carries
Refs == {"ref_1", "ref_2"}
BogusRef == "ref_x"
OrderIds == {"ord_8", "ord_9"}
\* the session id the gateway issues for a merchant reference
SessionFor(ref) == IF ref = "ref_1" THEN "sess_1" ELSE "sess_2"
\* the authenticated principal of each create-session request
CurrentUser(c) == IF c % 2 = 1 THEN "userA" ELSE "userB"
\* whether the create-session request carries an `order` object
HasOrder(c) == c % 2 = 1
\* amount (in cents) and currency of each create-session request
RequestAmount(c) == 10000 + 250 * (c % 2)
RequestCurrency(c) == IF c % 2 = 1 THEN "aed" ELSE "USD"
\* the currency taken as the caller wrote it
UpperLeftOut(s) == s

\* CreatePaymentRequest.currency_upper
Upper(s) ==
    CASE s \in {"aed", "Aed", "AED"} -> "AED"
      [] s \in {"usd", "Usd", "USD"} -> "USD"
      [] OTHER -> s
\* order.status of a webhook: the documented values, other casings and
\* synonyms, a value the mapping does not know and the empty string
GatewayStatuses == {"Success", "SUCCESS", "Failed", "declined", "Cancelled",
                    "canceled", "Expired", ""}
Terminal == {"SUCCESS", "FAILED", "CANCELLED", "UNKNOWN"}

\* Python truthiness of an optional string
Truthy(v) == v \notin {NoValue, ""}

\* the status string compared as it came
LowerLeftOut(s) == s

\* str.lower() on the status strings of the model
Lower(s) ==
    CASE s \in {"Success", "SUCCESS", "success"} -> "success"
      [] s \in {"Failed", "FAILED", "failed"} -> "failed"
      [] s \in {"Declined", "DECLINED", "declined"} -> "declined"
      [] s \in {"Cancelled", "CANCELLED", "cancelled"} -> "cancelled"
      [] s \in {"Canceled", "CANCELED", "canceled"} -> "canceled"
      [] s \in {"Expired", "EXPIRED", "expired"} -> "expired"
      [] OTHER -> s

VARIABLES
    db,         \* payments table: id -> row
    exposed,    \* merchant references that have left the process (sent to the gateway)
    configured, \* PUBLIC_KEY and API_PASSWORD are both non-empty
    cs,         \* create-session requests: position and locals
    wh,         \* webhook requests: position and locals
    gs,         \* last answer of GET /payments/status/{payment_id}
    sig         \* a call of _generate_signature: its arguments and what it returned

vars == <<db, exposed, configured, cs, wh, gs, sig>>

\* ------------------------------------------------------------------ payments table
Columns == {"user_id", "amount", "currency", "merchant_reference_id", "status",
            "geidea_order_id", "geidea_session_id", "order_payload", "created_at"}

\* Payment(...) as create_payment_record builds it; the other columns are NULL
NewPayment(user, amount, currency, ref) ==
    [user_id |-> user, amount |-> amount, currency |-> currency,
     merchant_reference_id |-> ref, status |-> "PENDING",
     geidea_order_id |-> NoValue, geidea_session_id |-> NoValue,
     order_payload |-> NoValue, created_at |-> 0]

\* INTEGER PRIMARY KEY of SQLite: largest id + 1 (rows are never deleted)
NextId(d) == Cardinality(DOMAIN d) + 1

\* the columns of `assigned` whose value differs from the loaded row: what the
\* session's flush writes
Dirty(loaded, assigned) ==
    [c \in {k \in DOMAIN assigned : assigned[k] # loaded[k]} |-> assigned[c]]

\* an UPDATE that also stamps created_at, as a column with onupdate=func.now()
\* would
FlushStampsCreatedAt(d, pid, dirty) ==
    [p \in DOMAIN d |->
        IF p = pid
        THEN [c \in Columns |-> IF c \in DOMAIN dirty THEN dirty[c]
                                ELSE IF c = "created_at" THEN NextId(d)
                                ELSE d[p][c]]
        ELSE d[p]]

\* UPDATE payments SET <dirty columns> WHERE id = pid
Flush(d, pid, dirty) ==
    [p \in DOMAIN d |->
        IF p = pid
        THEN [c \in Columns |-> IF c \in DOMAIN dirty THEN dirty[c] ELSE d[p][c]]
        ELSE d[p]]

\* an INSERT that never reaches the table
InsertNothing(d, row) == d

\* INSERT INTO payments: the row gets the next id, and created_at its server
\* default func.now() (a clock that ticks with every insert)
Insert(d, row) ==
    [p \in DOMAIN d \cup {NextId(d)} |->
        IF p \in DOMAIN d THEN d[p] ELSE [row EXCEPT !.created_at = NextId(d)]]

\* a rollback that takes the newest row with it, as if its INSERT had not
\* been committed
RollbackLosesInsert(d) ==
    [p \in DOMAIN d \ {Cardinality(DOMAIN d)} |-> d[p]]

\* session.rollback(): the pending changes of the session are dropped, what was
\* committed stays
Rollback(d) == d

\* a column without its unique index: every value is accepted
RefNotChecked(d, ref) == TRUE

\* unique=True on merchant_reference_id
RefUnique(d, ref) == \A p \in DOMAIN d : d[p].merchant_reference_id # ref

\* the column without its unique index
OrderIdNotChecked(d, pid, dirty) == TRUE

\* unique=True on geidea_order_id (NULLs do not collide)
OrderIdUnique(d, pid, dirty) ==
    ("geidea_order_id" \in DOMAIN dirty /\ dirty["geidea_order_id"] # NoValue)
        => \A p \in DOMAIN d \ {pid} : d[p].geidea_order_id # dirty["geidea_order_id"]

\* a lookup whose where clause is lost: any row answers
FindAnyPayment(d, ref) ==
    IF DOMAIN d = {} THEN 0 ELSE CHOOSE p \in DOMAIN d : TRUE

\* select(Payment).where(Payment.merchant_reference_id == ref): scalar_one_or_none
FindByMerchantReference(d, ref) ==
    LET hit == {p \in DOMAIN d : d[p].merchant_reference_id = ref}
    IN IF hit = {} THEN 0 ELSE CHOOSE p \in hit : TRUE

\* str(uuid.uuid4()): a value no row carries (any of them behaves like any
\* other, so the first unused one stands for all), or, improbably, one a row
\* carries already
uuid4(d) ==
    {IF RefUnique(d, "ref_1") THEN "ref_1" ELSE "ref_2"}
        \cup {d[p].merchant_reference_id : p \in DOMAIN d}

\* ------------------------------------------------------------------ gateway
\* what client.post can produce for a request carrying `ref`: an
\* httpx.HTTPError, or a response
Unreachable == [net |-> "error", status_code |-> 0, responseCode |-> NoValue,
                detailedResponseCode |-> NoValue, session_id |-> NoValue]
HttpError == [net |-> "ok", status_code |-> 404, responseCode |-> NoValue,
              detailedResponseCode |-> NoValue, session_id |-> NoValue]
\* a 2xx answer whose body resp.json() cannot parse
NotJson == [net |-> "not_json", status_code |-> 200, responseCode |-> NoValue,
            detailedResponseCode |-> NoValue, session_id |-> NoValue]
GatewayResponses(ref) ==
    {Unreachable, HttpError, NotJson} \cup
    [net : {"ok"}, status_code : {200}, responseCode : {"000", "100"},
     detailedResponseCode : {"000", "00000", NoValue, "999"},
     session_id : {NoValue, "", SessionFor(ref)}]

\* the check of detailedResponseCode left out
SessionFailureOnResponseCodeOnly(resp) ==
    IF resp.net = "error" THEN 502
    ELSE IF resp.status_code >= 400 THEN resp.status_code
    ELSE IF resp.net = "not_json" THEN 500
    ELSE IF resp.responseCode # "000" THEN 400
    ELSE IF ~Truthy(resp.session_id) THEN 500
    ELSE 0

\* the status code of the HTTPException create_geidea_session raises for a
\* response, 0 when it raises none
SessionFailure(resp) ==
    IF resp.net = "error" THEN 502
    ELSE IF resp.status_code >= 400 THEN resp.status_code
    ELSE IF resp.net = "not_json" THEN 500
    ELSE IF resp.responseCode # "000"
            \/ resp.detailedResponseCode \notin {"000", "00000", NoValue} THEN 400
    ELSE IF ~Truthy(resp.session_id) THEN 500
    ELSE 0

\* the HTTPException that leaves create_payment_session: whatever was raised
\* inside is caught by `except Exception` and raised again as a 500
PaymentSessionError(inner) ==
    [kind |-> "error", status_code |-> 500, inner_code |-> inner,
     session_id |-> NoValue, payment_id |-> 0]

PaymentSessionOk(sid, pid) ==
    [kind |-> "ok", status_code |-> 200, inner_code |-> 0,
     session_id |-> sid, payment_id |-> pid]

NoResult ==
    [kind |-> "none", status_code |-> 0, inner_code |-> 0,
     session_id |-> NoValue, payment_id |-> 0]

\* no answer leaves create_payment_session: an asyncio.CancelledError went
\* through it (a BaseException, which no `except Exception` catches)
PaymentSessionCancelled ==
    [kind |-> "cancelled", status_code |-> 0, inner_code |-> 0,
     session_id |-> NoValue, payment_id |-> 0]

\* ------------------------------------------------------------------ signature
\* Strings are sequences of characters, so that concatenation is what it is in
\* the code.  An amount is a float with three decimals, given in thousandths.
MerchantPublicKeys == {<<"p", "k">>}
Amounts == {10000, 10001, 10004, 10006, 10010, 999}
Currencies == {<<"A", "E", "D">>, <<"U", "S", "D">>}
\* merchant_reference_id: str | None
NoReference == [given |-> FALSE, text |-> <<>>]
References ==
    {NoReference} \cup
    {[given |-> TRUE, text |-> t] : t \in {<<>>, <<"r", "1">>, <<"r", "2">>}}
\* "NUL" is the character U+0000
ApiPasswords == {<<"s", "1">>, <<"s", "2">>, <<"s", "1", "NUL">>}
Timestamps == {<<"t", "1">>, <<"t", "2">>}

DigitChars == <<"0", "1", "2", "3", "4", "5", "6", "7", "8", "9">>

\* the decimal digits of a natural number
RECURSIVE Digits(_)
Digits(n) ==
    IF n < 10 THEN <<DigitChars[n + 1]>>
    ELSE Digits(n \div 10) \o <<DigitChars[(n % 10) + 1]>>

\* an amount formatted with one decimal
FormatAmountOneDecimal(amount) ==
    LET tenths == (amount + 50) \div 100
    IN Digits(tenths \div 10) \o <<".">> \o <<DigitChars[(tenths % 10) + 1]>>

\* f"{amount:.2f}": rounded to the nearest hundredth (no amount of the model
\* lies halfway between two)
_format_amount_two_decimals(amount) ==
    LET cents == (amount + 5) \div 10
    IN Digits(cents \div 100) \o <<".">>
           \o <<DigitChars[((cents \div 10) % 10) + 1], DigitChars[(cents % 10) + 1]>>

\* the key block of HMAC (RFC 2104): a key no longer than the block is padded
\* with zero bytes, so zero bytes at its end make no difference
RECURSIVE HmacKey(_)
HmacKey(key) ==
    IF key # <<>> /\ key[Len(key)] = "NUL"
    THEN HmacKey(SubSeq(key, 1, Len(key) - 1))
    ELSE key

\* hmac.new(key, data, hashlib.sha256).digest(), taken as collision-free:
\* two digests are equal exactly when key block and message are
HmacSha256(key, data) == [key |-> HmacKey(key), data |-> data]

\* b64encode(digest).decode("utf-8"): one text per digest
B64Encode(digest) == [base64_of |-> digest]

\* str() of an optional argument inside an f-string
FormatValue(ref) == IF ref.given THEN ref.text ELSE <<"N", "o", "n", "e">>

\* GeideaManager._generate_signature
_generate_signature(merchant_public_key, amount, currency, merchant_reference_id, api_password, timestamp) ==
    LET amount_str == _format_amount_two_decimals(amount)
        data == merchant_public_key \o amount_str \o currency
                    \o FormatValue(merchant_reference_id) \o timestamp
    IN B64Encode(HmacSha256(api_password, data))

\* payment_router._generate_signature: the same, with
\* `merchant_reference_id or ""` first
generate_signature_standalone(merchant_public_key, amount, currency, merchant_reference_id, api_password, timestamp) ==
    LET amount_str == _format_amount_two_decimals(amount)
        ref == IF merchant_reference_id.given /\ merchant_reference_id.text # <<>>
               THEN merchant_reference_id.text ELSE <<>>
        data == merchant_public_key \o amount_str \o currency \o ref \o timestamp
    IN B64Encode(HmacSha256(api_password, data))

NoSignature == B64Encode(HmacSha256(<<>>, <<>>))
SigningArguments ==
    [merchant_public_key : MerchantPublicKeys, amount : Amounts, currency : Currencies,
     merchant_reference_id : References, api_password : ApiPasswords,
     timestamp : Timestamps]
\* no call of _generate_signature is looked at
NoSigning ==
    [calls |-> 0, arguments |-> CHOOSE a \in SigningArguments : TRUE,
     signature |-> NoSignature, standalone_signature |-> NoSignature]

\* ------------------------------------------------------------------ Init
\* no answer of client.post yet
NoResponse == [net |-> "none", status_code |-> 0, responseCode |-> NoValue,
               detailedResponseCode |-> NoValue, session_id |-> NoValue]
\* no request sent to the gateway yet
NoRequest ==
    [currency |-> NoValue, merchantReferenceId |-> NoValue,
     signed |-> [currency |-> NoValue, merchant_reference_id |-> NoValue]]
IdleSession ==
    [pc |-> "start", payment_id |-> 0,
     merchant_reference_id |-> NoValue, posts |-> 0, sent |-> NoRequest,
     response |-> NoResponse,
     session_id |-> NoValue, result |-> NoResult]

\* a webhook body without "order"
NoOrder == [merchantReferenceId |-> NoValue, orderId |-> NoValue, status |-> NoValue]
NoPayload == [has_order |-> FALSE, order |-> NoOrder]
\* the body of the answer of POST /payments/webhook, none while the request runs
NoAck == [status |-> "none", message |-> "none"]
IdleHook ==
    [pc |-> "idle", merchant_reference_id |-> NoValue, order_id |-> NoValue,
     gateway_status |-> NoValue, payment_id |-> 0, loaded_pending |-> FALSE,
     dirty |-> [c \in {} |-> NoValue], outcome |-> "none",
     return_value |-> NoValue, ack |-> NoAck]

NoAnswer == [user |-> NoValue, payment_id |-> 0, status_code |-> 0, body |-> [detail |-> "none"]]

\* the service after startup: an empty payments table, no request running
InitService ==
    /\ db = [p \in {} |-> NewPayment(NoValue, 0, NoValue, NoValue)]
    /\ exposed = {}
    /\ configured \in BOOLEAN
    /\ cs = [c \in Sessions |-> IdleSession]
    /\ wh = [w \in Hooks |-> IdleHook]
    /\ gs = NoAnswer

Init ==
    /\ InitService
    /\ sig = NoSigning

\* ------------------------------------------------------------------ POST /payments/create-session
\* create_payment_record: INSERT, commit, refresh.  The reference is a uuid4;
\* the unique index refuses one that a row already carries.  A failure is
\* rolled back and ends the request with a 500.
create_payment_record(c) ==
    /\ cs[c].pc = "start"
    /\ \A b \in Sessions : b < c => cs[b].pc # "start"
    /\ \E ref \in uuid4(db), stored \in BOOLEAN :
         IF stored /\ RefUnique(db, ref)
         THEN /\ db' = Insert(db, NewPayment(CurrentUser(c), RequestAmount(c),
                                            Upper(RequestCurrency(c)), ref))
              /\ cs' = [cs EXCEPT ![c] = [@ EXCEPT !.pc = "inserted", !.payment_id = NextId(db),
                          !.merchant_reference_id = ref]]
         ELSE /\ db' = Rollback(db)
              /\ cs' = [cs EXCEPT ![c] = [@ EXCEPT !.pc = "done",
                          !.result = PaymentSessionError(500)]]
    /\ UNCHANGED <<exposed, configured, wh, gs, sig>>

\* what the session holds as pending changes when the optional payloads are set
PayloadChanges(order) ==
    IF order THEN [order_payload |-> "order"] ELSE [c \in {} |-> NoValue]

\* the payloads written in the transaction of the insert, so that a failure
\* takes the new row with it
persist_payloads_with_insert(c) ==
    /\ cs[c].pc = "inserted"
    /\ \E stored \in BOOLEAN :
         LET dirty == PayloadChanges(HasOrder(c))
         IN IF stored \/ DOMAIN dirty = {}
            THEN /\ db' = Flush(db, cs[c].payment_id, dirty)
                 /\ cs' = [cs EXCEPT ![c].pc = "ready"]
            ELSE /\ db' = [p \in DOMAIN db \ {cs[c].payment_id} |-> db[p]]
                 /\ cs' = [cs EXCEPT ![c] = [@ EXCEPT !.pc = "done",
                             !.result = PaymentSessionError(500)]]
    /\ UNCHANGED <<exposed, configured, wh, gs, sig>>

\* create_payment_session, lines 156-161: json.dumps of the optional payloads
\* on the Payment object, then commit
persist_optional_payloads(c) ==
    /\ cs[c].pc = "inserted"
    /\ \E stored \in BOOLEAN :
         LET dirty == PayloadChanges(HasOrder(c))
         IN IF stored \/ DOMAIN dirty = {}
            THEN /\ db' = Flush(db, cs[c].payment_id, dirty)
                 /\ cs' = [cs EXCEPT ![c].pc = "ready"]
            ELSE /\ db' = Rollback(db)
                 /\ cs' = [cs EXCEPT ![c] = [@ EXCEPT !.pc = "done",
                             !.result = PaymentSessionError(500)]]
    /\ UNCHANGED <<exposed, configured, wh, gs, sig>>

\* create_geidea_session, lines 88-105: what of the Payment goes into the
\* arguments of _generate_signature and into request_body
SessionRequest(payment) ==
    [currency |-> payment.currency,
     merchantReferenceId |-> payment.merchant_reference_id,
     signed |-> [currency |-> payment.currency,
                 merchant_reference_id |-> payment.merchant_reference_id]]

\* create_geidea_session up to client.post: the credentials check, the signed
\* request body with the payment's merchant reference, and the POST going out
post_session_request(c) ==
    /\ cs[c].pc = "ready"
    /\ IF configured
       THEN /\ cs' = [cs EXCEPT ![c] = [@ EXCEPT !.pc = "inflight", !.posts = @ + 1,
                        !.sent = SessionRequest(db[cs[c].payment_id])]]
            /\ exposed' = exposed \cup {cs[c].merchant_reference_id}
       ELSE /\ cs' = [cs EXCEPT ![c] = [@ EXCEPT !.pc = "done",
                        !.result = PaymentSessionError(500)]]
            /\ exposed' = exposed
    /\ db' = IF configured THEN db ELSE Rollback(db)
    /\ UNCHANGED <<configured, wh, gs, sig>>

\* create_geidea_session, lines 122-140: what the call does with the answer
\* `resp` of client.post, up to the assignment of payment.geidea_session_id
\* (the commit is the next step) or to the exception that ends the request
AfterResponse(session, resp) ==
    IF SessionFailure(resp) = 0
    THEN [session EXCEPT !.pc = "attach", !.response = NoResponse,
                         !.session_id = resp.session_id]
    ELSE [session EXCEPT !.pc = "done", !.response = NoResponse,
                         !.result = PaymentSessionError(SessionFailure(resp))]

\* a gateway failure answered by sending the request again
retry_session_request(c) ==
    /\ cs[c].pc = "inflight"
    /\ \E resp \in GatewayResponses(cs[c].merchant_reference_id) :
         cs' = [cs EXCEPT ![c] =
                  IF SessionFailure(resp) = 0 THEN AfterResponse(cs[c], resp)
                  ELSE [cs[c] EXCEPT !.pc = "ready"]]
    /\ db' = db
    /\ UNCHANGED <<exposed, configured, wh, gs, sig>>

\* create_geidea_session from the answer of client.post to the assignment of
\* payment.geidea_session_id
receive_session_response(c) ==
    /\ cs[c].pc = "inflight"
    /\ \E resp \in GatewayResponses(cs[c].merchant_reference_id) :
         cs' = [cs EXCEPT ![c] = AfterResponse(cs[c], resp)]
    /\ db' = IF cs'[c].pc = "done" THEN Rollback(db) ELSE db
    /\ UNCHANGED <<exposed, configured, wh, gs, sig>>

\* the same stretch of code in two steps.  First line 121: client.post returns
\* or raises
client_post_returns(c) ==
    /\ cs[c].pc = "inflight"
    /\ \E resp \in GatewayResponses(cs[c].merchant_reference_id) :
         cs' = [cs EXCEPT ![c] = [@ EXCEPT !.pc = "answered", !.response = resp]]
    /\ UNCHANGED <<db, exposed, configured, wh, gs, sig>>

\* then lines 122-140: the answer is classified
classify_response(c) ==
    /\ cs[c].pc = "answered"
    /\ cs' = [cs EXCEPT ![c] = AfterResponse(cs[c], cs[c].response)]
    /\ db' = IF cs'[c].pc = "done" THEN Rollback(db) ELSE db
    /\ UNCHANGED <<exposed, configured, wh, gs, sig>>

\* the task of the request is cancelled while it is suspended in
\* `await client.post` (line 121), before or after the gateway has answered:
\* CancelledError is raised at the await and is neither an httpx.HTTPError
\* (line 122), an HTTPException (line 145) nor an Exception (lines 147, 168),
\* so it leaves the handler; `async with` closes the client and get_db the
\* session, which holds no pending change.  The answer of the gateway, if
\* there is one, stays unread.
cancel_session_request(c) ==
    /\ cs[c].pc \in {"inflight", "answered"}
    /\ cs' = [cs EXCEPT ![c] = [@ EXCEPT !.pc = "done",
                !.result = PaymentSessionCancelled]]
    /\ UNCHANGED <<db, exposed, configured, wh, gs, sig>>

\* the assignment of the session id left out
NoSessionChanges(sid) == [c \in {} |-> NoValue]

\* a flush that writes the Payment object as the session holds it, the status
\* and the order id it loaded at the insert included
SessionChangesWholeObject(sid) ==
    [geidea_session_id |-> sid, status |-> "PENDING", geidea_order_id |-> NoValue]

\* the pending change of create_geidea_session, line 140
SessionChanges(sid) == [geidea_session_id |-> sid]

\* create_geidea_session, lines 141-143, and the return of
\* create_payment_session: commit, then (session_id, payment.id)
commit_session_id(c) ==
    /\ cs[c].pc = "attach"
    /\ \E stored \in BOOLEAN :
         IF stored
         THEN /\ db' = Flush(db, cs[c].payment_id, SessionChanges(cs[c].session_id))
              /\ cs' = [cs EXCEPT ![c] = [@ EXCEPT !.pc = "done",
                          !.result = PaymentSessionOk(cs[c].session_id, cs[c].payment_id)]]
         ELSE /\ db' = Rollback(db)
              /\ cs' = [cs EXCEPT ![c] = [@ EXCEPT !.pc = "done",
                          !.result = PaymentSessionError(500)]]
    /\ UNCHANGED <<exposed, configured, wh, gs, sig>>

\* ------------------------------------------------------------------ POST /payments/webhook
\* the JSON bodies a webhook request can carry.  A reference that a payment
\* carries is a uuid4 nobody outside knows until it was sent to the gateway.
Payloads(known) ==
    {NoPayload} \cup
    {[has_order |-> TRUE, order |-> o] : o \in [merchantReferenceId : known,
                            orderId : OrderIds \cup {NoValue},
                            status : GatewayStatuses \cup {NoValue}]}
    \cup
    {[has_order |-> TRUE, order |-> o] : o \in [merchantReferenceId : {BogusRef, NoValue, ""},
                            orderId : OrderIds,
                            status : {"Success", NoValue}]}

\* the order id of a success webhook assigned to the wrong attribute
StatusAssignmentWrongColumn(status, order_id) ==
    IF Truthy(status) /\ Lower(status) = "success"
        THEN [status |-> "SUCCESS", geidea_session_id |-> order_id]
    ELSE IF Truthy(status) /\ Lower(status) \in {"failed", "declined"}
        THEN [status |-> "FAILED"]
    ELSE IF Truthy(status) /\ Lower(status) \in {"cancelled", "canceled"}
        THEN [status |-> "CANCELLED"]
    ELSE [status |-> "UNKNOWN"]

\* the order id of a success webhook not taken over
StatusAssignmentWithoutOrderId(status, order_id) ==
    IF Truthy(status) /\ Lower(status) = "success"
        THEN [status |-> "SUCCESS"]
    ELSE IF Truthy(status) /\ Lower(status) \in {"failed", "declined"}
        THEN [status |-> "FAILED"]
    ELSE IF Truthy(status) /\ Lower(status) \in {"cancelled", "canceled"}
        THEN [status |-> "CANCELLED"]
    ELSE [status |-> "UNKNOWN"]

\* handle_webhook, lines 205-214: the attributes assigned on the loaded Payment
StatusAssignment(status, order_id) ==
    IF Truthy(status) /\ Lower(status) = "success"
        THEN [status |-> "SUCCESS", geidea_order_id |-> order_id]
    ELSE IF Truthy(status) /\ Lower(status) \in {"failed", "declined"}
        THEN [status |-> "FAILED"]
    ELSE IF Truthy(status) /\ Lower(status) \in {"cancelled", "canceled"}
        THEN [status |-> "CANCELLED"]
    ELSE [status |-> "UNKNOWN"]

\* the check of the merchant reference left out
InvalidWebhookOrderOnly(payload) == ~payload.has_order

\* handle_webhook, lines 185-194: the ValueError raised for a payload with no
\* order or no merchant reference
InvalidWebhook(payload) ==
    \/ ~payload.has_order
    \/ ~Truthy(payload.order.merchantReferenceId)

\* geidea_webhook, line 72: the body the endpoint answers once handle_webhook
\* has returned; what handle_webhook returned is not looked at
WebhookAnswer(returned) ==
    [status |-> "success", message |-> "Webhook processed successfully"]

\* handle_webhook has returned `returned`; geidea_webhook builds its answer in
\* the same stretch of code (no await in between).  `what` tells which way
\* handle_webhook took.
WebhookReturn(hook, what, returned) ==
    [hook EXCEPT !.pc = "returned", !.outcome = what, !.payment_id = 0,
                 !.loaded_pending = FALSE, !.dirty = IdleHook.dirty,
                 !.return_value = returned, !.ack = WebhookAnswer(returned)]

\* handle_webhook, lines 218-221: the except branch.  The exception is printed
\* and handle_webhook returns None; nothing is raised to geidea_webhook.
WebhookError(hook, what) == WebhookReturn(hook, what, NoValue)

\* a lookup that takes only payments with a session id
AfterQuerySessionRequired(hook, d, status, order_id) ==
    LET pid == FindByMerchantReference(d, hook.merchant_reference_id)
    IN IF pid = 0 \/ d[pid].geidea_session_id = NoValue
       THEN WebhookError(hook, "not_found")
       ELSE [hook EXCEPT !.pc = "loaded", !.payment_id = pid,
                         !.loaded_pending = (d[pid].status = "PENDING"),
                         !.dirty = Dirty(d[pid], StatusAssignment(status, order_id))]

\* handle_webhook, lines 196-214: the answer of the lookup by merchant
\* reference and the assignments on the loaded Payment.  `hook` holds the
\* locals of the call.
AfterQuery(hook, d, status, order_id) ==
    LET pid == FindByMerchantReference(d, hook.merchant_reference_id)
    IN IF pid = 0
       THEN WebhookError(hook, "not_found")
       ELSE [hook EXCEPT !.pc = "loaded", !.payment_id = pid,
                         !.loaded_pending = (d[pid].status = "PENDING"),
                         !.dirty = Dirty(d[pid], StatusAssignment(status, order_id))]

\* geidea_webhook up to the answer of the lookup query: request.json(), then
\* handle_webhook, lines 184-214: the payload checks, the lookup by merchant
\* reference and the assignments on the loaded Payment.  The locals that are
\* dead after the assignments (status, order_id) are not kept.
handle_webhook_lookup(w) ==
    /\ wh[w].pc = "idle"
    /\ \A v \in Hooks : v < w => wh[v].pc # "idle"
    /\ \E payload \in Payloads(exposed) :
         LET ref == payload.order.merchantReferenceId
             hook == [IdleHook EXCEPT !.merchant_reference_id = ref]
         IN IF InvalidWebhook(payload)
            THEN wh' = [wh EXCEPT ![w] = WebhookError(hook, "invalid")]
            ELSE wh' = [wh EXCEPT ![w] =
                          AfterQuery(hook, db, payload.order.status, payload.order.orderId)]
    /\ db' = IF wh'[w].pc = "returned" THEN Rollback(db) ELSE db
    /\ UNCHANGED <<exposed, configured, cs, gs, sig>>

\* the same stretch of code in two steps.  First geidea_webhook and
\* handle_webhook, lines 184-199: the payload checks, up to the lookup query
\* being sent; the locals of the call are kept.
receive_webhook(w) ==
    /\ wh[w].pc = "idle"
    /\ \A v \in Hooks : v < w => wh[v].pc # "idle"
    /\ \E payload \in Payloads(exposed) :
         LET hook == [IdleHook EXCEPT
                         !.merchant_reference_id = payload.order.merchantReferenceId,
                         !.order_id = payload.order.orderId,
                         !.gateway_status = payload.order.status]
         IN IF InvalidWebhook(payload)
            THEN wh' = [wh EXCEPT ![w] = WebhookError(hook, "invalid")]
            ELSE wh' = [wh EXCEPT ![w] = [hook EXCEPT !.pc = "received"]]
    /\ db' = IF wh'[w].pc = "returned" THEN Rollback(db) ELSE db
    /\ UNCHANGED <<exposed, configured, cs, gs, sig>>

\* then handle_webhook, lines 200-214: the query answers
handle_webhook_query(w) ==
    /\ wh[w].pc = "received"
    /\ wh' = [wh EXCEPT ![w] = AfterQuery(wh[w], db, wh[w].gateway_status, wh[w].order_id)]
    /\ db' = IF wh'[w].pc = "returned" THEN Rollback(db) ELSE db
    /\ UNCHANGED <<exposed, configured, cs, gs, sig>>

\* handle_webhook, lines 216-221: commit, after which the function ends and so
\* returns None; an IntegrityError of the unique index on geidea_order_id or a
\* storage failure is rolled back and printed
handle_webhook_commit(w) ==
    /\ wh[w].pc = "loaded"
    /\ \E stored \in BOOLEAN :
         IF (stored /\ OrderIdUnique(db, wh[w].payment_id, wh[w].dirty)) \/ DOMAIN wh[w].dirty = {}
         THEN /\ db' = Flush(db, wh[w].payment_id, wh[w].dirty)
              /\ wh' = [wh EXCEPT ![w] =
                          [WebhookReturn(wh[w], "committed", NoValue)
                              EXCEPT !.payment_id = wh[w].payment_id]]
         ELSE /\ db' = Rollback(db)
              /\ wh' = [wh EXCEPT ![w] = WebhookError(wh[w], "storage_error")]
    /\ UNCHANGED <<exposed, configured, cs, gs, sig>>

\* geidea_webhook: the answer is sent and the session of get_db is closed
geidea_webhook_respond(w) ==
    /\ wh[w].pc = "returned"
    /\ wh' = [wh EXCEPT ![w] = IdleHook]
    /\ UNCHANGED <<db, exposed, configured, cs, gs, sig>>

\* ------------------------------------------------------------------ GET /payments/status/{payment_id}
\* the query without its user_id condition
get_payment_any_owner(d, user, payment_id) ==
    IF payment_id \in DOMAIN d THEN payment_id ELSE 0

\* select(Payment).where(Payment.id == payment_id, Payment.user_id == current_user.id)
get_payment_by_id(d, user, payment_id) ==
    IF payment_id \in DOMAIN d /\ d[payment_id].user_id = user THEN payment_id ELSE 0

\* the answer of get_payment_status: the 404, or PaymentStatusResponse
StatusAnswer(d, user, payment_id) ==
    LET found == get_payment_by_id(d, user, payment_id)
    IN IF found = 0
       THEN [user |-> user, payment_id |-> payment_id, status_code |-> 404,
             body |-> [detail |-> "Payment not found"]]
       ELSE [user |-> user, payment_id |-> payment_id, status_code |-> 200,
             body |-> [payment_id |-> found, status |-> d[found].status,
                       amount |-> d[found].amount, currency |-> d[found].currency,
                       merchant_reference_id |-> d[found].merchant_reference_id,
                       created_at |-> d[found].created_at]]

get_payment_status ==
    /\ \E user \in Users, payment_id \in 1..(MaxPayments + 1) :
         gs' = StatusAnswer(db, user, payment_id)
    /\ UNCHANGED <<db, exposed, configured, cs, wh, sig>>

\* ------------------------------------------------------------------ signing alone
\* the arguments of the calls of _generate_signature that are looked at
InitSign ==
    /\ InitService
    /\ \E a \in SigningArguments : sig = [NoSigning EXCEPT !.arguments = a]

\* one call of each _generate_signature with the arguments
generate_signature ==
    /\ sig.calls < MaxCalls
    /\ LET a == sig.arguments
       IN sig' = [sig EXCEPT
                !.calls = @ + 1,
                !.signature = _generate_signature(a.merchant_public_key, a.amount,
                    a.currency, a.merchant_reference_id, a.api_password, a.timestamp),
                !.standalone_signature = generate_signature_standalone(
                    a.merchant_public_key, a.amount, a.currency,
                    a.merchant_reference_id, a.api_password, a.timestamp)]
    /\ UNCHANGED <<db, exposed, configured, cs, wh, gs>>

SpecSign == InitSign /\ [][generate_signature]_vars

\* ------------------------------------------------------------------ specifications
SessionStep(c) ==
    \/ create_payment_record(c)
    \/ persist_optional_payloads(c)
    \/ post_session_request(c)
    \/ receive_session_response(c)
    \/ commit_session_id(c)

HookStep(w) ==
    \/ handle_webhook_lookup(w)
    \/ handle_webhook_commit(w)
    \/ geidea_webhook_respond(w)

\* the whole service
Next ==
    \/ \E c \in Sessions : SessionStep(c)
    \/ \E w \in Hooks : HookStep(w)
    \/ get_payment_status

Spec == Init /\ [][Next]_vars

\* one create-session request and every webhook request: the webhooks of one
\* payment racing each other and the session creation
NextRace ==
    \/ SessionStep(1)
    \/ \E w \in Hooks : HookStep(w)

SpecRace == Init /\ [][NextRace]_vars

\* every create-session request and one webhook request at a time: several
\* payments in the table
NextPayments ==
    \/ \E c \in Sessions : SessionStep(c)
    \/ HookStep(1)

SpecPayments == Init /\ [][NextPayments]_vars

\* one create-session request, one webhook request at a time and the status
\* queries of both users
NextStatus ==
    \/ SessionStep(1)
    \/ HookStep(1)
    \/ get_payment_status

SpecStatus == Init /\ [][NextStatus]_vars

\* one create-session request and one webhook request at a time, every await
\* of the two handlers a step of its own
NextSteps ==
    \/ create_payment_record(1)
    \/ persist_optional_payloads(1)
    \/ post_session_request(1)
    \/ client_post_returns(1)
    \/ classify_response(1)
    \/ commit_session_id(1)
    \/ receive_webhook(1)
    \/ handle_webhook_query(1)
    \/ handle_webhook_commit(1)
    \/ geidea_webhook_respond(1)

SpecSteps == Init /\ [][NextSteps]_vars

\* the same, and the task of the create-session request can be cancelled
\* while the gateway call is in flight
NextCancel ==
    \/ NextSteps
    \/ cancel_session_request(1)

SpecCancel == Init /\ [][NextCancel]_vars

\* ------------------------------------------------------------------ claims
\* the rows that carry a merchant reference
PaymentsWith(ref) == {p \in DOMAIN db : db[p].merchant_reference_id = ref}

\* C1: a payment's status changes only from PENDING to SUCCESS, FAILED,
\* CANCELLED or UNKNOWN; once it is one of those four no webhook changes it.
C1_TerminalStatusIsFinal ==
    [][\A p \in DOMAIN db :
          db'[p].status # db[p].status
              => (db[p].status = "PENDING" /\ db'[p].status \in Terminal)]_vars

\* C2: of two webhook calls, one reporting Success and one Failed, that both
\* looked a payment up while it was PENDING, the one that commits second is a
\* late duplicate: its commit leaves the payment as the first commit wrote it.
C2_FirstCommitWins ==
    [][\A w \in Hooks :
          (/\ wh[w].pc = "loaded"
           /\ wh[w].loaded_pending
           /\ "status" \in DOMAIN wh[w].dirty
           /\ wh[w].dirty["status"] \in {"SUCCESS", "FAILED"}
           /\ wh'[w].pc = "returned"
           /\ db[wh[w].payment_id].status \in {"SUCCESS", "FAILED"})
              => db'[wh[w].payment_id] = db[wh[w].payment_id]]_vars

\* C3: geidea_order_id is written only once, by a success webhook applied to a
\* PENDING payment; once set, no webhook changes it.
C3_OrderIdSetOnce ==
    [][\A p \in DOMAIN db :
          db'[p].geidea_order_id # db[p].geidea_order_id
              => (/\ db[p].geidea_order_id = NoValue
                  /\ db[p].status = "PENDING"
                  /\ db'[p].status = "SUCCESS")]_vars

\* C4: when a create-session request is about to call the gateway, and ever
\* after the call went out whatever its outcome, the table holds exactly one
\* payment of that request; it was committed PENDING with no session id before
\* the call, and every request that inserted has one row.
C4_InsertedBeforeGatewayCall ==
    /\ \A c \in Sessions :
         cs[c].pc = "ready"
             => (/\ cs[c].payment_id \in DOMAIN db
                 /\ db[cs[c].payment_id].status = "PENDING"
                 /\ db[cs[c].payment_id].geidea_session_id = NoValue
                 /\ db[cs[c].payment_id].merchant_reference_id = cs[c].merchant_reference_id)
    /\ \A c \in Sessions :
         cs[c].merchant_reference_id \in exposed
             => PaymentsWith(cs[c].merchant_reference_id) = {cs[c].payment_id}
    /\ Cardinality(DOMAIN db) = Cardinality({c \in Sessions : cs[c].payment_id # 0})

\* a gateway call has failed (unreachable) and the payment of the request is stored
C4_Witness ==
    \E c \in Sessions :
        /\ cs[c].pc = "done"
        /\ cs[c].result.inner_code = 502
        /\ cs[c].payment_id \in DOMAIN db
        /\ Cardinality(DOMAIN db) = 2

\* C5: the step in which the gateway call of a create-session request fails
\* ends the request with an error and leaves the table as it was: the payment
\* is still there, unchanged, with no session id.
C5_GatewayFailureKeepsPayment ==
    [][\A c \in Sessions :
          (cs[c].pc = "inflight" /\ cs'[c].pc = "done")
              => (/\ cs'[c].result.kind = "error"
                  /\ DOMAIN db' = DOMAIN db
                  /\ cs[c].payment_id \in DOMAIN db'
                  /\ db'[cs[c].payment_id] = db[cs[c].payment_id]
                  /\ db'[cs[c].payment_id].geidea_session_id = NoValue)]_vars

\* a request ended by a gateway error, its payment stored PENDING with no session id
C5_Witness ==
    \E c \in Sessions :
        /\ cs[c].pc = "done"
        /\ cs[c].result.kind = "error"
        /\ cs[c].result.inner_code \in {502, 404, 400}
        /\ cs[c].payment_id \in DOMAIN db
        /\ db[cs[c].payment_id].status = "PENDING"
        /\ db[cs[c].payment_id].geidea_session_id = NoValue

\* C6: a create-session request that returned (session_id, payment_id) has its
\* session id stored on that payment, and it is the session id the gateway
\* answered for the payment's merchant reference.
C6_ReturnedSessionIsStored ==
    \A c \in Sessions :
        cs[c].result.kind = "ok"
            => (/\ cs[c].result.payment_id \in DOMAIN db
                /\ Truthy(cs[c].result.session_id)
                /\ db[cs[c].result.payment_id].geidea_session_id = cs[c].result.session_id
                /\ cs[c].result.session_id =
                       SessionFor(db[cs[c].result.payment_id].merchant_reference_id))

\* both create-session requests have returned a session
C6_Witness ==
    \A c \in Sessions : cs[c].result.kind = "ok"

\* C7: a payment has a session id only once its create-session request got a
\* session from the gateway and committed it, and a session id that is set is
\* never changed or cleared by a step of any request.
C7_SessionIdSetOnce ==
    /\ [](\A p \in DOMAIN db :
            db[p].geidea_session_id # NoValue
                => \E c \in Sessions : cs[c].result.kind = "ok" /\ cs[c].result.payment_id = p)
    /\ [][\A p \in DOMAIN db :
            db[p].geidea_session_id # NoValue
                => db'[p].geidea_session_id = db[p].geidea_session_id]_vars

\* a payment with a session id that a webhook has resolved and whose status
\* query was answered
C7_Witness ==
    \E p \in DOMAIN db :
        /\ db[p].geidea_session_id # NoValue
        /\ db[p].status = "SUCCESS"
        /\ gs.status_code = 200

\* C8: a webhook whose merchant reference no payment carries changes nothing in
\* the table and ends in handle_webhook's except branch: it returns, having
\* found nothing.
C8_UnknownReferenceNoEffect ==
    [][\A w \in Hooks :
          (/\ wh[w].pc = "idle"
           /\ wh'[w].pc # "idle"
           /\ Truthy(wh'[w].merchant_reference_id)
           /\ PaymentsWith(wh'[w].merchant_reference_id) = {})
              => (/\ db' = db
                  /\ wh'[w].pc = "returned"
                  /\ wh'[w].outcome = "not_found")]_vars

\* a webhook for an unknown reference was handled while payments are stored
C8_Witness ==
    \E w \in Hooks :
        /\ wh[w].pc = "returned"
        /\ wh[w].outcome = "not_found"
        /\ wh[w].merchant_reference_id = BogusRef
        /\ DOMAIN db # {}

\* C9: a webhook payload without `order` or without order.merchantReferenceId
\* is rejected as invalid and changes nothing in the table.
C9_InvalidPayloadNoEffect ==
    [][\A w \in Hooks :
          (/\ wh[w].pc = "idle"
           /\ wh'[w].pc # "idle"
           /\ ~Truthy(wh'[w].merchant_reference_id))
              => (/\ db' = db
                  /\ wh'[w].pc = "returned"
                  /\ wh'[w].outcome = "invalid")]_vars

\* an invalid webhook was handled while payments are stored
C9_Witness ==
    \E w \in Hooks :
        /\ wh[w].pc = "returned"
        /\ wh[w].outcome = "invalid"
        /\ DOMAIN db # {}

\* C10: a status query is answered with a payment exactly when that payment
\* exists and belongs to the querying user, and then with that payment's data;
\* every other query gets the same "Payment not found" answer, whether the
\* payment belongs to somebody else or does not exist.
C10_StatusScopedToOwner ==
    /\ [](gs.status_code = 200
            => (/\ gs.payment_id \in DOMAIN db
                /\ db[gs.payment_id].user_id = gs.user
                /\ gs.body.payment_id = gs.payment_id
                /\ gs.body.merchant_reference_id = db[gs.payment_id].merchant_reference_id))
    /\ [](gs.status_code = 404 => gs.body = [detail |-> "Payment not found"])
    /\ [][gs' # gs
            => (/\ gs'.status_code \in {200, 404}
                /\ gs'.status_code = 200
                     <=> (gs'.payment_id \in DOMAIN db /\ db[gs'.payment_id].user_id = gs'.user)
                /\ gs'.status_code = 200 => gs'.body.status = db[gs'.payment_id].status)]_vars

\* userB asked for the payment of userA, which a webhook has resolved, and got
\* the not-found answer
C10_Witness ==
    /\ gs.status_code = 404
    /\ gs.user = "userB"
    /\ gs.payment_id \in DOMAIN db
    /\ db[gs.payment_id].user_id = "userA"
    /\ db[gs.payment_id].status = "SUCCESS"

\* the internal status the mapping of section 4.4 gives a gateway status,
\* written out for every casing
C11_Image(status) ==
    CASE status \in {"success", "Success", "SUCCESS"} -> "SUCCESS"
      [] status \in {"failed", "Failed", "FAILED",
                     "declined", "Declined", "DECLINED"} -> "FAILED"
      [] status \in {"cancelled", "Cancelled", "CANCELLED",
                     "canceled", "Canceled", "CANCELED"} -> "CANCELLED"
      [] OTHER -> "UNKNOWN"

\* C11: a webhook that is committed on a PENDING payment stores the image of
\* its gateway status under the case-insensitive mapping: success -> SUCCESS,
\* failed or declined -> FAILED, cancelled or canceled -> CANCELLED, anything
\* else, a missing or an empty status included -> UNKNOWN.
C11_StatusMapping ==
    [][\A w \in Hooks :
          (/\ wh[w].pc = "loaded"
           /\ wh'[w].pc = "returned"
           /\ wh'[w].outcome = "committed"
           /\ db[wh[w].payment_id].status = "PENDING")
              => db'[wh[w].payment_id].status = C11_Image(wh[w].gateway_status)]_vars

\* a webhook with status "declined" was committed and the payment is FAILED
C11_Witness ==
    \E w \in Hooks :
        /\ wh[w].pc = "returned"
        /\ wh[w].outcome = "committed"
        /\ wh[w].gateway_status = "declined"
        /\ wh[w].payment_id \in DOMAIN db
        /\ db[wh[w].payment_id].status = "FAILED"

\* C12: no two payments carry the same merchant reference, and no step of a
\* create-session or webhook request changes the merchant reference of a
\* stored payment (or removes the payment).
C12_ReferenceUniqueAndFixed ==
    /\ [](\A p, q \in DOMAIN db :
            p # q => db[p].merchant_reference_id # db[q].merchant_reference_id)
    /\ [][\A p \in DOMAIN db :
            /\ p \in DOMAIN db'
            /\ db'[p].merchant_reference_id = db[p].merchant_reference_id]_vars

\* two payments are stored, both sessions are over and a webhook has resolved one
C12_Witness ==
    /\ Cardinality(DOMAIN db) = 2
    /\ \A c \in Sessions : cs[c].pc = "done"
    /\ \E p \in DOMAIN db : db[p].status = "SUCCESS" /\ db[p].geidea_session_id # NoValue

\* C13: create_geidea_session classifies the answer of the gateway: an HTTP
\* status >= 400 is a rejection (raised with that status); otherwise
\* responseCode "000" with detailedResponseCode "000", "00000" or absent is a
\* success and every other pair of codes a decline (400); a success without
\* session.id is a protocol error (500).  The session id is taken from the
\* answer, returned and stored on the payment in the remaining case and in no
\* other.
C13_ResponseClassification ==
    [][\A c \in Sessions :
          LET r == cs[c].response
              codes_ok == /\ r.responseCode = "000"
                          /\ r.detailedResponseCode \in {"000", "00000", NoValue}
              accepted == /\ r.net = "ok"
                          /\ r.status_code < 400
                          /\ codes_ok
                          /\ r.session_id \notin {NoValue, ""}
          IN /\ (cs[c].pc = "answered" /\ cs'[c].pc # "answered")
                  => /\ cs'[c].pc = "attach" <=> accepted
                     /\ accepted => cs'[c].session_id = r.session_id
                     /\ ~accepted => (cs'[c].pc = "done" /\ cs'[c].result.kind = "error"
                                        /\ db' = db)
                     /\ (r.net = "ok" /\ r.status_code >= 400)
                            => cs'[c].result.inner_code = r.status_code
                     /\ (r.net = "ok" /\ r.status_code < 400 /\ ~codes_ok)
                            => cs'[c].result.inner_code = 400
                     /\ (r.net = "ok" /\ r.status_code < 400 /\ codes_ok /\ ~accepted)
                            => cs'[c].result.inner_code = 500
             /\ (cs[c].pc = "attach" /\ cs'[c].result.kind = "ok")
                  => /\ cs'[c].result.session_id = cs[c].session_id
                     /\ db'[cs[c].payment_id].geidea_session_id = cs[c].session_id
             /\ (cs[c].payment_id \in DOMAIN db /\ cs[c].pc # "attach")
                  => db'[cs[c].payment_id].geidea_session_id
                         = db[cs[c].payment_id].geidea_session_id]_vars

\* an answer with responseCode "000" and a detailedResponseCode that is not a
\* success code was classified as a decline; the payment has no session id
C13_Witness ==
    \E c \in Sessions :
        /\ cs[c].pc = "done"
        /\ cs[c].result.inner_code = 400
        /\ cs[c].payment_id \in DOMAIN db
        /\ db[cs[c].payment_id].geidea_session_id = NoValue

\* C14: a create-session request that failed at the gateway answers with the
\* status of its kind of failure: 502 for a gateway that could not be reached,
\* the gateway's own status for a rejection, 400 for a decline; the kinds do
\* not all arrive as the same internal error.
C14_FailureKindReachesCaller ==
    \A c \in Sessions :
        (cs[c].result.kind = "error" /\ cs[c].result.inner_code \in {502, 404, 400})
            => cs[c].result.status_code = cs[c].result.inner_code

\* C15: a webhook that was not reconciled (invalid payload, unknown merchant
\* reference, storage error) is reported as such: what handle_webhook returns
\* and what the endpoint answers differ from the return value (None) and the
\* answer (status "success") of a webhook that was reconciled.
C15_WebhookFailureIsReported ==
    \A w \in Hooks :
        (wh[w].pc = "returned" /\ wh[w].outcome \in {"invalid", "not_found", "storage_error"})
            => /\ wh[w].return_value # NoValue
               /\ wh[w].ack.status # "success"

\* C16: end to end.  A create-session request whose gateway answer is
\* responseCode "000" with session.id S gets S attached and, once committed,
\* returns S; the first webhook then committed for the payment's merchant
\* reference, if it carries status "Success" and orderId O, leaves the payment
\* SUCCESS with geidea_order_id O.
C16_EndToEnd ==
    [][\A c \in Sessions :
          LET r == cs[c].response
              pid == cs[c].payment_id
          IN /\ (/\ cs[c].pc = "answered" /\ cs'[c].pc # "answered"
                  /\ r.net = "ok" /\ r.status_code = 200
                  /\ r.responseCode = "000"
                  /\ r.detailedResponseCode \in {"000", "00000", NoValue}
                  /\ Truthy(r.session_id))
                     => (cs'[c].pc = "attach" /\ cs'[c].session_id = r.session_id)
             /\ (cs[c].pc = "attach" /\ cs'[c].result.kind = "ok")
                     => (/\ cs'[c].result.session_id = cs[c].session_id
                         /\ cs'[c].result.payment_id = pid)
             /\ \A w \in Hooks :
                  (/\ cs[c].result.kind = "ok"
                   /\ wh[w].pc = "loaded" /\ wh[w].payment_id = pid
                   /\ wh'[w].pc = "returned" /\ wh'[w].outcome = "committed"
                   /\ db[pid].status = "PENDING"
                   /\ wh[w].gateway_status = "Success")
                     => (/\ db'[pid].status = "SUCCESS"
                         /\ db'[pid].geidea_order_id = wh[w].order_id
                         /\ db'[pid].geidea_session_id = cs[c].result.session_id)]_vars

\* the request returned sess_1 and the webhook {ref, "ord_9", "Success"} was
\* committed: the payment is SUCCESS with order id ord_9
C16_Witness ==
    \E c \in Sessions, w \in Hooks :
        /\ cs[c].result.kind = "ok"
        /\ cs[c].result.session_id = "sess_1"
        /\ wh[w].pc = "returned" /\ wh[w].outcome = "committed"
        /\ wh[w].payment_id = cs[c].result.payment_id
        /\ wh[w].gateway_status = "Success" /\ wh[w].order_id = "ord_9"
        /\ db[cs[c].result.payment_id].status = "SUCCESS"
        /\ db[cs[c].result.payment_id].geidea_order_id = "ord_9"

\* the arguments next to `a`: the same public key, and exactly one of amount,
\* currency, reference, timestamp and secret changed
C17_OneFieldChanged(a) ==
    {b \in SigningArguments :
        /\ b.merchant_public_key = a.merchant_public_key
        /\ Cardinality({f \in {"amount", "currency", "merchant_reference_id",
                                 "timestamp", "api_password"} : a[f] # b[f]}) = 1}

C17_Sign(a) ==
    _generate_signature(a.merchant_public_key, a.amount, a.currency,
                        a.merchant_reference_id, a.api_password, a.timestamp)

C17_SignStandalone(a) ==
    generate_signature_standalone(a.merchant_public_key, a.amount, a.currency,
                                  a.merchant_reference_id, a.api_password, a.timestamp)

\* C17 as stated: a call with the same arguments returns the same signature,
\* and changing any one of amount, currency, reference, timestamp or secret
\* changes the signature.
C17_AnyChangeChangesSignature ==
    sig.calls > 0 =>
        /\ sig.signature = C17_Sign(sig.arguments)
        /\ sig.standalone_signature = C17_SignStandalone(sig.arguments)
        /\ \A b \in C17_OneFieldChanged(sig.arguments) :
              /\ C17_SignStandalone(b) # sig.standalone_signature
              /\ (sig.arguments.merchant_reference_id.given /\ b.merchant_reference_id.given)
                    => C17_Sign(b) # sig.signature

\* a change that reaches the signed message or the key: an amount that is
\* another number of hundredths once rounded, a reference with another text
\* (absent counting as empty), a secret that differs before its trailing NUL
\* characters, any other currency or timestamp
C17_VisibleChange(a, b) ==
    /\ (a.amount + 5) \div 10 = (b.amount + 5) \div 10 => a.amount = b.amount
    /\ a.merchant_reference_id.text = b.merchant_reference_id.text
           => a.merchant_reference_id = b.merchant_reference_id
    /\ \/ a.api_password = b.api_password
       \/ \E i \in 1..Len(a.api_password) \cup 1..Len(b.api_password) :
             LET x == IF i <= Len(a.api_password) THEN a.api_password[i] ELSE "NUL"
                 y == IF i <= Len(b.api_password) THEN b.api_password[i] ELSE "NUL"
             IN x # y

\* C17, amended: a call with the same arguments returns the same signature
\* every time, and changing one of amount, currency, reference, timestamp or
\* secret changes the signature whenever the change is visible in the signed
\* message or in the key.
C17_VisibleChangeChangesSignature ==
    /\ [](sig.calls > 0 =>
            \A b \in C17_OneFieldChanged(sig.arguments) :
                C17_VisibleChange(sig.arguments, b)
                    => /\ C17_SignStandalone(b) # sig.standalone_signature
                       /\ (sig.arguments.merchant_reference_id.given
                               /\ b.merchant_reference_id.given)
                             => C17_Sign(b) # sig.signature)
    /\ [][(sig.calls > 0 /\ sig'.arguments = sig.arguments)
            => (/\ sig'.signature = sig.signature
                /\ sig'.standalone_signature = sig.standalone_signature)]_vars

\* 10.001 was signed twice; 10.01 would sign differently, 10.004 would not
C17_Witness ==
    /\ sig.calls = 2
    /\ sig.arguments.amount = 10001
    /\ C17_Sign([sig.arguments EXCEPT !.amount = 10010]) # sig.signature
    /\ C17_Sign([sig.arguments EXCEPT !.amount = 10004]) = sig.signature

\* C18: a create-session request sends its session request to the gateway at
\* most once: whatever client.post answers (a network failure, a rejection, a
\* decline), the request goes on to attach the session id or ends, and it never
\* sends again; so no merchant reference is sent to the gateway more than once.
C18_SingleAttempt ==
    /\ [](\A c \in Sessions : cs[c].posts <= 1)
    /\ [](\A c, b \in Sessions :
            (/\ cs[c].posts > 0 /\ cs[b].posts > 0
             /\ cs[c].merchant_reference_id = cs[b].merchant_reference_id) => c = b)
    /\ [][\A c \in Sessions :
            /\ (cs[c].pc = "inflight" /\ cs'[c].pc # "inflight")
                  => (cs'[c].pc \in {"attach", "done"} /\ cs'[c].posts = 1)
            /\ cs[c].posts = 1 => cs'[c].posts = 1
            /\ cs[c].pc = "done" => cs'[c] = cs[c]]_vars

\* the one request sent could not reach the gateway and the request is over
C18_Witness ==
    \E c \in Sessions :
        /\ cs[c].pc = "done"
        /\ cs[c].posts = 1
        /\ cs[c].result.kind = "error"
        /\ cs[c].result.inner_code = 502

\* C19: a stored payment is never deleted and its id, user_id, amount, currency
\* and created_at never change.  Its geidea_session_id is written only by the
\* commit of its create-session request, its order payload only by that
\* request's payload step, its status and geidea_order_id only by the commit
\* of a webhook for it.
C19_OnlyLifecycleFields ==
    [][\A p \in DOMAIN db :
          /\ p \in DOMAIN db'
          /\ \A col \in {"user_id", "amount", "currency", "created_at"} :
                db'[p][col] = db[p][col]
          /\ db'[p].geidea_session_id # db[p].geidea_session_id
                => \E c \in Sessions :
                     cs[c].pc = "attach" /\ cs[c].payment_id = p /\ cs'[c].pc = "done"
          /\ db'[p].order_payload # db[p].order_payload
                => \E c \in Sessions :
                     cs[c].pc = "inserted" /\ cs[c].payment_id = p /\ cs'[c].pc = "ready"
          /\ (\/ db'[p].status # db[p].status
              \/ db'[p].geidea_order_id # db[p].geidea_order_id)
                => \E w \in Hooks :
                     wh[w].pc = "loaded" /\ wh[w].payment_id = p /\ wh'[w].pc = "returned"]_vars

\* a payment that went through every write of its life: payload, session id,
\* status and order id are set, owner, amount, currency and created_at are
\* those of its insert
C19_Witness ==
    \E p \in DOMAIN db :
        /\ db[p].order_payload # NoValue
        /\ db[p].geidea_session_id # NoValue
        /\ db[p].status = "SUCCESS"
        /\ db[p].geidea_order_id # NoValue
        /\ db[p].user_id = CurrentUser(1)
        /\ db[p].amount = RequestAmount(1)
        /\ db[p].currency = "AED"
        /\ db[p].created_at = p

\* C20: when storing the optional payloads of a create-session request fails,
\* the payment inserted before stays in the table as it was committed:
\* PENDING, with its merchant reference, no payload and no session id.
C20_PayloadFailureKeepsInsert ==
    [][\A c \in Sessions :
          (cs[c].pc = "inserted" /\ cs'[c].pc = "done")
              => (/\ cs'[c].result.kind = "error"
                  /\ db' = db
                  /\ cs[c].payment_id \in DOMAIN db'
                  /\ db'[cs[c].payment_id].status = "PENDING"
                  /\ db'[cs[c].payment_id].merchant_reference_id
                         = cs[c].merchant_reference_id
                  /\ db'[cs[c].payment_id].order_payload = NoValue
                  /\ db'[cs[c].payment_id].geidea_session_id = NoValue)]_vars

\* a request with an order payload ended at the payload step, before any
\* gateway call; its payment is stored PENDING
C20_Witness ==
    \E c \in Sessions :
        /\ configured
        /\ HasOrder(c)
        /\ cs[c].pc = "done"
        /\ cs[c].posts = 0
        /\ cs[c].payment_id \in DOMAIN db
        /\ db[cs[c].payment_id].status = "PENDING"
        /\ db[cs[c].payment_id].order_payload = NoValue

\* C21: a create-session request that was cancelled while its gateway call
\* was in flight, and whose call the gateway answered with a session, has that
\* session id stored on its payment: no payment is left without session id
\* because the client abandoned the request.
C21_CancelledCallIsPersisted ==
    \A c \in Sessions :
        (/\ cs[c].pc = "done"
         /\ cs[c].result.kind = "cancelled"
         /\ SessionFailure(cs[c].response) = 0)
            => db[cs[c].payment_id].geidea_session_id = cs[c].response.session_id

\* C22: every payment of a create-session request is stored with the
\* uppercased currency of the request ("aed" as "AED", "USD" as "USD"), and
\* the request sent to the gateway carries that stored value, in its body and
\* in what was signed.
C22_CurrencyUppercased ==
    \A c \in Sessions :
        cs[c].payment_id # 0
            => /\ RequestCurrency(c) = "aed" => db[cs[c].payment_id].currency = "AED"
               /\ RequestCurrency(c) = "USD" => db[cs[c].payment_id].currency = "USD"
               /\ db[cs[c].payment_id].currency \in {"AED", "USD"}
               /\ cs[c].posts > 0
                    => /\ cs[c].sent.currency = db[cs[c].payment_id].currency
                       /\ cs[c].sent.signed.currency = db[cs[c].payment_id].currency

\* the request that asked for "aed" has sent its session request with "AED"
C22_Witness ==
    \E c \in Sessions :
        /\ RequestCurrency(c) = "aed"
        /\ cs[c].posts = 1
        /\ cs[c].sent.currency = "AED"
        /\ db[cs[c].payment_id].currency = "AED"

\* C23: the commit that attaches the session id to a payment which a webhook
\* has resolved in the meantime (after the insert, before this commit) writes
\* the session id only: the payment keeps the terminal status and the order
\* id the webhook wrote.
C23_AttachKeepsReconciledStatus ==
    [][\A c \in Sessions :
          (/\ cs[c].pc = "attach"
           /\ cs'[c].result.kind = "ok"
           /\ db[cs[c].payment_id].status \in Terminal)
              => (/\ db'[cs[c].payment_id].status = db[cs[c].payment_id].status
                  /\ db'[cs[c].payment_id].geidea_order_id
                         = db[cs[c].payment_id].geidea_order_id
                  /\ db'[cs[c].payment_id].geidea_session_id = cs[c].session_id)]_vars

\* a webhook was committed on the payment of a request whose session id is not
\* attached yet, and the request went on to return its session: the payment
\* is SUCCESS with the order id of the webhook and has the session id
C23_Witness ==
    \E c \in Sessions, w \in Hooks :
        /\ cs[c].result.kind = "ok"
        /\ wh[w].pc = "returned" /\ wh[w].outcome = "committed"
        /\ wh[w].payment_id = cs[c].result.payment_id
        /\ db[cs[c].result.payment_id].status = "SUCCESS"
        /\ db[cs[c].result.payment_id].geidea_order_id = "ord_8"
        /\ db[cs[c].result.payment_id].geidea_session_id = cs[c].result.session_id

\* C24: in every reachable state a payment that has a geidea_order_id has
\* status SUCCESS; no sequence of webhooks leaves an order id on a payment
\* that is PENDING, FAILED, CANCELLED or UNKNOWN.
C24_OrderIdOnlyOnSuccess ==
    \A p \in DOMAIN db :
        db[p].geidea_order_id # NoValue => db[p].status = "SUCCESS"

\* C25: no two payments hold the same non-null geidea_order_id; the commit of
\* a success webhook whose orderId another payment holds already fails and is
\* rolled back as a whole: the table, so also status and order id of the
\* webhook's payment, stays as it was.
C25_OrderIdUnique ==
    /\ [](\A p, q \in DOMAIN db :
            (p # q /\ db[p].geidea_order_id # NoValue)
                => db[p].geidea_order_id # db[q].geidea_order_id)
    /\ [][\A w \in Hooks :
            (/\ wh[w].pc = "loaded"
             /\ wh'[w].pc = "returned"
             /\ "geidea_order_id" \in DOMAIN wh[w].dirty
             /\ wh[w].dirty["geidea_order_id"] # NoValue
             /\ \E q \in DOMAIN db \ {wh[w].payment_id} :
                    db[q].geidea_order_id = wh[w].dirty["geidea_order_id"])
                => (/\ wh'[w].outcome = "storage_error"
                    /\ db' = db)]_vars

\* a success webhook with order id ord_8 for a PENDING payment has failed at
\* its commit while another payment holds ord_8; the payment is still PENDING
\* with no order id
C25_Witness ==
    \E w \in Hooks, p, q \in DOMAIN db :
        /\ p # q
        /\ wh[w].pc = "returned"
        /\ wh[w].outcome = "storage_error"
        /\ wh[w].merchant_reference_id = db[p].merchant_reference_id
        /\ db[p].status = "PENDING"
        /\ db[p].geidea_order_id = NoValue
        /\ db[q].status = "SUCCESS"
        /\ db[q].geidea_order_id = "ord_8"

\* C26 as stated: in every reachable state a payment with status SUCCESS has
\* a geidea_session_id; a payment left PENDING with no session id by a failed
\* gateway call is never moved to SUCCESS by a webhook.
C26_SuccessOnlyWithSession ==
    \A p \in DOMAIN db :
        db[p].status = "SUCCESS" => db[p].geidea_session_id # NoValue

\* C26, amended: a payment that is SUCCESS and whose create-session request
\* has returned a session has that session id.  A webhook neither needs nor
\* writes the session id: a webhook for the merchant reference of a stored
\* payment is taken up whether or not the payment has a session id, and once
\* its commit succeeds with a success status the payment is SUCCESS with the
\* session id, or the lack of one, it had before.
C26_SuccessWhateverTheSession ==
    /\ [](\A c \in Sessions :
            (cs[c].result.kind = "ok" /\ db[cs[c].result.payment_id].status = "SUCCESS")
                => db[cs[c].result.payment_id].geidea_session_id = cs[c].result.session_id)
    /\ [][\A w \in Hooks :
            /\ (/\ wh[w].pc = "received"
                /\ wh'[w].pc # "received"
                /\ PaymentsWith(wh[w].merchant_reference_id) # {})
                    => (/\ wh'[w].pc = "loaded"
                        /\ wh'[w].payment_id \in PaymentsWith(wh[w].merchant_reference_id))
            /\ (/\ wh[w].pc = "loaded"
                /\ wh'[w].pc = "returned"
                /\ wh'[w].outcome = "committed")
                    => (/\ db'[wh[w].payment_id].geidea_session_id
                               = db[wh[w].payment_id].geidea_session_id
                        /\ (Truthy(wh[w].gateway_status)
                                /\ Lower(wh[w].gateway_status) = "success")
                              => db'[wh[w].payment_id].status = "SUCCESS")]_vars

\* the gateway call of a request failed (the gateway could not be reached, as
\* far as the request knows) and left its payment without session id; a
\* success webhook for the payment was committed and the payment is SUCCESS,
\* still without session id
C26_Witness ==
    \E c \in Sessions, w \in Hooks :
        /\ cs[c].pc = "done"
        /\ cs[c].result.kind = "error"
        /\ cs[c].result.inner_code = 502
        /\ wh[w].pc = "returned"
        /\ wh[w].outcome = "committed"
        /\ wh[w].payment_id = cs[c].payment_id
        /\ wh[w].gateway_status = "Success"
        /\ db[cs[c].payment_id].status = "SUCCESS"
        /\ db[cs[c].payment_id].geidea_session_id = NoValue

====
